---------------------------- MODULE Spec2Model ----------------------------
(***************************************************************************)
(* joi-ts-generator: the two generators, src/index.ts (the minimal one,    *)
(* variant "index") and src/cli.ts (the configured one, variant "cli").    *)
(*                                                                         *)
(* Texts are TLA+ strings built with \o exactly as the template literals   *)
(* of the source build them.  A schema node is a record with the fields of *)
(* a joi schema the generators read:                                       *)
(*   type      _type                                                       *)
(*   notes     _notes, each note split into the part the regular           *)
(*             expression /^type:/ matches (pre) and what follows (rest)   *)
(*   tests     _tests, the rule names                                      *)
(*   presence  _flags.presence, "" when the flag is absent                 *)
(*   valids    _valids._set, each value with its JavaScript type (t) and   *)
(*             its text (s)                                                *)
(*   items     _inner.items                                                *)
(*   children  _inner.children, each [key, schema]                         *)
(*   matches   _inner.matches, each [schema]                               *)
(*   ref       0 for an object of its own; k > 0 when the node IS the      *)
(*             object exported at position k (joi keeps the reference when  *)
(*             a schema is used as a key of another)                       *)
(***************************************************************************)
EXTENDS Integers, Sequences, FiniteSets, TLC

VARIABLES
  variant,          \* "index" | "cli": which generator runs
  argv,             \* process.argv (index.ts)
  pkg,              \* what readPkgUp found (cli.ts)
  useOptionTypes,   \* config.useOptionTypes (cli.ts)
  objects,          \* the loaded module: the exports in Object.keys order
  loaded,           \* require(sourcePath / inputPath) has returned
  pc,               \* position in the script
  idx,              \* exports already mapped by runTypeGenerator
  discoveredTypes,  \* the registry
  output,           \* output / schemaOutput of runTypeGenerator
  written,          \* the files written, in order: [path, content]
  exitCode,         \* -1 while running
  error,            \* what ended the run: "" or the place that threw
  arg,              \* a single call: the function, its arguments, the registry before
  result            \* what the call returned: [text, reg, err]

vars == <<variant, argv, pkg, useOptionTypes, objects, loaded, pc, idx,
          discoveredTypes, output, written, exitCode, error, arg, result>>

----------------------------------------------------------------------------
(* Bounds *)

MaxSize == 4      \* exports plus record fields of a loaded module
MaxItems == 2     \* items of an array, candidates of an alternatives node
MaxValids == 3    \* length of an allowed-value sequence
MaxFields == 2    \* fields of a record handed to writeInterfaceType alone

----------------------------------------------------------------------------
(* Strings and sequences *)

RECURSIVE join(_, _)
join(s, sep) ==
  IF Len(s) = 0 THEN ""
  ELSE IF Len(s) = 1 THEN s[1]
  ELSE s[1] \o sep \o join(Tail(s), sep)

RECURSIVE concat(_)
concat(s) == IF Len(s) = 0 THEN "" ELSE s[1] \o concat(Tail(s))

Reverse(s) == [i \in 1..Len(s) |-> s[Len(s) + 1 - i]]

SeqsUpTo(S, n) == UNION {[1..k -> S] : k \in 0..n}

----------------------------------------------------------------------------
(* Schema nodes *)

Note(pre, rest) == [pre |-> pre, rest |-> rest]
TypeNote(name) == Note("type:", name)
NoteText(n) == n.pre \o n.rest

Node(type, notes, tests, presence) ==
  [type |-> type, notes |-> notes, tests |-> tests, presence |-> presence,
   valids |-> <<>>, items |-> <<>>, children |-> <<>>, matches |-> <<>>,
   ref |-> 0]

RefTo(k) == [Node("object", <<>>, <<>>, "") EXCEPT !.ref = k]

Deref(schema, heap) ==
  IF schema.ref = 0 THEN schema ELSE heap[schema.ref].schema

NoType == ""      \* the type of an entry registered without one
OK == ""          \* no exception
TypeError == "TypeError"
NotesError == "Must provide type information through notes."

----------------------------------------------------------------------------
(* The registry *)

addDiscoveredTypeAlways(reg, type) == Append(reg, type)

addDiscoveredType(reg, type) ==
  IF \E i \in 1..Len(reg) : reg[i].name = type.name
  THEN reg
  ELSE Append(reg, type)

Entry(name, type, skip) == [name |-> name, type |-> type, skip |-> skip]

----------------------------------------------------------------------------
(* The type deriver *)

typeCheck(n) == n.pre = "type:"

usableNotesNever(schema) == FALSE

usableNotes(schema) == \E i \in 1..Len(schema.notes) : typeCheck(schema.notes[i])

isRequiredSchema(schema) ==
  (IF schema.presence = "" THEN "optional" ELSE schema.presence) = "required"

getUnion(node) == node.valids

joiToTypescript(type) == IF type = "date" THEN "Date" ELSE type

nameFromNotes(notes) ==
  LET hits == {i \in 1..Len(notes) : typeCheck(notes[i])}
  IN  IF hits = {}
      THEN [err |-> NotesError, name |-> ""]
      ELSE LET i == CHOOSE j \in hits : \A k \in hits : j <= k
           IN  [err |-> OK, name |-> notes[i].rest]

unwrapNotes(type, notes, reg) ==
  LET n == nameFromNotes(notes)
  IN  IF n.err # OK
      THEN [expr |-> "", reg |-> reg, err |-> n.err]
      ELSE [expr |-> n.name,
            reg |-> addDiscoveredType(reg, Entry(n.name, type, FALSE)),
            err |-> OK]

alternativesCheck(schema) == schema.type = "alternatives"

uuidCheckNever(schema) == FALSE

uuidCheck(schema) == \E i \in 1..Len(schema.tests) : schema.tests[i] = "guid"

optionTypeWrapper(type) == "Option<" \o type \o ">"

RECURSIVE deriveType(_, _, _)
RECURSIVE deriveAll(_, _, _)

unwrapArrayFirstOnly(schema, reg, heap) ==
  IF Len(schema.items) = 0
  THEN [expr |-> "", reg |-> reg, err |-> TypeError]
  ELSE LET r == deriveType(schema.items[1], reg, heap)
       IN  [r EXCEPT !.expr = IF r.err = OK THEN r.expr \o "[]" ELSE ""]

unwrapArray(schema, reg, heap) ==
  LET items == schema.items
  IN  IF Len(items) = 0
      THEN \* deriveType(undefined) reads undefined._type
           [expr |-> "", reg |-> reg, err |-> TypeError]
      ELSE IF Len(Tail(items)) > 0
      THEN LET rs == deriveAll(items, reg, heap)
           IN  [expr |-> IF rs.err = OK
                         THEN "Array<" \o join(rs.exprs, " | ") \o ">"
                         ELSE "",
                reg |-> rs.reg, err |-> rs.err]
      ELSE LET r == deriveType(items[1], reg, heap)
           IN  [r EXCEPT !.expr = IF r.err = OK THEN r.expr \o "[]" ELSE ""]

deriveType(schema0, reg, heap) ==
  LET schema == Deref(schema0, heap)
  IN  IF schema.type = "array" THEN unwrapArray(schema, reg, heap)
      ELSE IF usableNotes(schema) THEN unwrapNotes(schema.type, schema.notes, reg)
      ELSE IF uuidCheck(schema)
      THEN [expr |-> "Uuid",
            reg |-> addDiscoveredType(reg, Entry("Uuid", "string", FALSE)),
            err |-> OK]
      ELSE IF variant = "cli" /\ alternativesCheck(schema)
      THEN LET rs == deriveAll([i \in 1..Len(schema.matches) |->
                                  schema.matches[i].schema], reg, heap)
           IN  [expr |-> IF rs.err = OK THEN join(rs.exprs, " | ") ELSE "",
                reg |-> rs.reg, err |-> rs.err]
      ELSE [expr |-> joiToTypescript(schema.type), reg |-> reg, err |-> OK]

deriveAll(schemas, reg, heap) ==
  IF Len(schemas) = 0
  THEN [exprs |-> <<>>, reg |-> reg, err |-> OK]
  ELSE LET r == deriveType(schemas[1], reg, heap)
       IN  IF r.err # OK
           THEN [exprs |-> <<>>, reg |-> r.reg, err |-> r.err]
           ELSE LET rs == deriveAll(Tail(schemas), r.reg, heap)
                IN  [exprs |-> <<r.expr>> \o rs.exprs, reg |-> rs.reg,
                     err |-> rs.err]

----------------------------------------------------------------------------
(* The union/alias resolver and the declaration writers *)

Str(s) == [str |-> s]                      \* a JavaScript string argument
typeofString(node) == "str" \in DOMAIN node

Quoted(opt) == [t |-> "string", s |-> "\"" \o opt.s \o "\""]

RECURSIVE pushNew(_, _, _)

pushNewAll(options, baseType, out) ==
  out \o [i \in 1..Len(options) |->
           IF baseType = "string" THEN Quoted(options[i]) ELSE options[i]]

pushNew(options, baseType, out) ==
  IF Len(options) = 0 THEN out
  ELSE LET opt == options[1]
           candidate == IF baseType = "string" THEN Quoted(opt) ELSE opt
           found == \E i \in 1..Len(out) : out[i] = candidate
       IN  pushNew(Tail(options), baseType,
                   IF found THEN out ELSE Append(out, candidate))

Texts(out) == [i \in 1..Len(out) |-> out[i].s]

resolveTypeDefinitionIndex(node) ==
  IF typeofString(node) THEN node.str
  ELSE LET baseType == node.type
           options == getUnion(node)
       IN  IF Len(options) > 0
           THEN join(Texts(pushNew(options, baseType, <<>>)), " | ")
           ELSE join(<<joiToTypescript(baseType)>>, " | ")

resolveTypeDefinitionCli(node) ==
  IF typeofString(node) THEN " " \o node.str
  ELSE LET baseType == node.type
           options == getUnion(node)
           out == Texts(pushNew(options, baseType, <<>>))
       IN  IF Len(options) > 0
           THEN concat([i \in 1..Len(out) |-> "\n  | " \o out[i]])
           ELSE " " \o joiToTypescript(baseType)

writeTypeAlias(typeName, type) ==
  IF variant = "cli"
  THEN "export type " \o typeName \o " =" \o resolveTypeDefinitionCli(type) \o ";"
  ELSE "export type " \o typeName \o " = " \o resolveTypeDefinitionIndex(type) \o ";"

propNameAlwaysOptional(child) == child.key \o "?"

propName(child) ==
  IF variant = "cli"
  THEN IF isRequiredSchema(child.schema) \/ useOptionTypes
       THEN child.key ELSE child.key \o "?"
  ELSE IF isRequiredSchema(child.schema) THEN child.key ELSE child.key \o "?"

wrap(child, expr) ==
  IF variant = "cli" /\ ~isRequiredSchema(child.schema) /\ useOptionTypes
  THEN optionTypeWrapper(expr) ELSE expr

\* children.map(child => `  ${propName(child)}: ${wrap(deriveType(child.schema))};`)
RECURSIVE fieldLines(_, _, _)
fieldLines(children, reg, heap) ==
  IF Len(children) = 0
  THEN [lines |-> <<>>, reg |-> reg, err |-> OK]
  ELSE LET child == [children[1] EXCEPT !.schema = Deref(@, heap)]
           r == deriveType(child.schema, reg, heap)
       IN  IF r.err # OK
           THEN [lines |-> <<>>, reg |-> r.reg, err |-> r.err]
           ELSE LET rs == fieldLines(Tail(children), r.reg, heap)
                    line == "  " \o propName(child) \o ": "
                            \o wrap(child, r.expr) \o ";"
                IN  [lines |-> <<line>> \o rs.lines, reg |-> rs.reg,
                     err |-> rs.err]

writeInterfaceType(typeName, node, reg, heap) ==
  LET rs == fieldLines(node.children, reg, heap)
  IN  [text |-> IF rs.err = OK
                THEN "export interface " \o typeName \o " {\n"
                     \o join(rs.lines, "\n") \o "\n}"
                ELSE "",
       reg |-> rs.reg, err |-> rs.err]

typeWriters == {"array", "object", "string"}

\* writer(name, schema) with writer = typeWriters[schema._type]
callWriter(name, schema, reg, heap) ==
  IF schema.type \notin typeWriters
  THEN [text |-> "", reg |-> reg, err |-> TypeError]    \* undefined(...)
  ELSE IF schema.type = "object"
  THEN writeInterfaceType(name, schema, reg, heap)
  ELSE [text |-> writeTypeAlias(name, schema), reg |-> reg, err |-> OK]

----------------------------------------------------------------------------
(* The inputs of a run *)

Name(i) == "T" \o ToString(i)       \* the name of the export at position i
Key(i) == "f" \o ToString(i)        \* the key of a record's i-th field

Val(t, s) == [t |-> t, s |-> s]

\* The field schemas of the loaded modules.
RunChildren ==
  { Node("string", <<>>, <<>>, ""),
    Node("string", <<TypeNote("Money")>>, <<"guid">>, "required"),
    Node("date", <<TypeNote("Money")>>, <<>>, ""),
    Node("string", <<>>, <<"guid">>, ""),
    Node("string", <<TypeNote(Name(2))>>, <<>>, ""),
    Node("date", <<TypeNote("Uuid")>>, <<>>, ""),
    [Node("array", <<>>, <<>>, "") EXCEPT
       !.items = <<Node("string", <<>>, <<"guid">>, "")>>],
    RefTo(1),
    RefTo(2) }

Export(base, suffix, schema) ==
  [key |-> [base |-> base, suffix |-> suffix], schema |-> schema]

\* index.ts names a schema by its type: note, cli.ts by its ...Schema export key.
TopNotes(v, i) == IF v = "index" THEN <<TypeNote(Name(i))>> ELSE <<>>

Record(v, i, cs) ==
  Export(Name(i), "Schema",
         [Node("object", TopNotes(v, i), <<>>, "") EXCEPT
            !.children = [k \in 1..Len(cs) |-> [key |-> Key(k), schema |-> cs[k]]]])

\* The exports that are no records: an enumerated string (tagged by its author
\* in both variants), an array, a number, and an export that is no schema of
\* the generator (no type: note, no ...Schema key).
Scalars(v, i) ==
  { Export(Name(i), "Schema",
           [Node("string", <<TypeNote(Name(i))>>, <<>>, "") EXCEPT
              !.valids = <<Val("string", "a"), Val("string", "b")>>]),
    Export(Name(i), "Schema",
           [Node("array", TopNotes(v, i), <<>>, "") EXCEPT
              !.items = <<Node("string", <<>>, <<>>, "")>>]),
    Export(Name(i), "Schema", Node("number", TopNotes(v, i), <<>>, "")),
    Export("helper" \o ToString(i), "", Node("string", <<>>, <<>>, "")) }

TopsOfSize(v, i, n) ==
  IF n = 1
  THEN Scalars(v, i) \cup {Record(v, i, <<>>)}
  ELSE {Record(v, i, cs) : cs \in [1..(n - 1) -> RunChildren]}

RECURSIVE ModulesFrom(_, _, _)
ModulesFrom(v, i, budget) ==
  {<<>>} \cup
  UNION { { <<t>> \o rest : t \in TopsOfSize(v, i, n),
                            rest \in ModulesFrom(v, i + 1, budget - n) }
          : n \in 1..budget }

\* A field that is another export's object names an export that exists and is
\* not the record holding the field.
RefsOK(objs) ==
  \A i \in 1..Len(objs) : \A k \in 1..Len(objs[i].schema.children) :
    LET r == objs[i].schema.children[k].schema.ref
    IN  r = 0 \/ (r # i /\ r <= Len(objs))

Modules(v) == {objs \in ModulesFrom(v, 1, MaxSize) : RefsOK(objs)}

Truthy(s) == s # ""
Argvs ==
  { <<"node", "index.ts">> \o rest :
      rest \in {<<>>, <<"">>, <<"schemas.js">>, <<"", "">>, <<"", "types.ts">>,
                <<"schemas.js", "">>, <<"schemas.js", "types.ts">>} }

Outputs == {"library", "types", "utils"}
Pkgs ==
  [found : BOOLEAN, section : BOOLEAN, input : BOOLEAN,
   outputs : SUBSET Outputs, useOptionTypes : BOOLEAN]
NoPkg == [found |-> FALSE, section |-> FALSE, input |-> FALSE,
          outputs |-> {}, useOptionTypes |-> FALSE]

configValidLax(p) == p.section /\ p.input

\* joi.validate(packageJson.pkg, configSchema, { allowUnknown: true })
configValid(p) == p.section /\ p.input /\ p.outputs = Outputs

----------------------------------------------------------------------------
(* The run *)

NoCall == [fn |-> "", name |-> "", node |-> Node("", <<>>, <<>>, ""), reg |-> <<>>]
NoResult == [text |-> "", reg |-> <<>>, err |-> OK]

Init ==
  /\ variant \in {"index", "cli"}
  /\ IF variant = "index"
     THEN argv \in Argvs /\ pkg = NoPkg
     ELSE argv = <<"node", "cli.ts">> /\ pkg \in Pkgs
  /\ useOptionTypes = FALSE
  /\ objects = <<>>
  /\ loaded = FALSE
  /\ pc = "start"
  /\ idx = 0
  /\ discoveredTypes = <<>>
  /\ output = <<>>
  /\ written = <<>>
  /\ exitCode = -1
  /\ error = ""
  /\ arg = NoCall /\ result = NoResult

Fail(where) ==
  /\ pc' = "failed"
  /\ exitCode' = 1
  /\ error' = where

argvAt(i) == IF i + 1 <= Len(argv) THEN argv[i + 1] ELSE ""   \* undefined is falsy too

\* index.ts, lines 6 to 14
IndexStart ==
  /\ variant = "index" /\ pc = "start"
  /\ LET sourcePath == argvAt(2)
         destPath == argvAt(3)
     IN  IF ~Truthy(sourcePath) /\ ~Truthy(destPath)
         THEN /\ pc' = "exited" /\ exitCode' = 1 /\ error' = "args"
              /\ UNCHANGED <<objects, loaded>>
         ELSE IF ~Truthy(sourcePath)
         THEN Fail("require") /\ UNCHANGED <<objects, loaded>>
         ELSE /\ objects' \in Modules("index")
              /\ loaded' = TRUE
              /\ pc' = "map"
              /\ UNCHANGED <<exitCode, error>>
  /\ UNCHANGED <<variant, argv, pkg, useOptionTypes, idx, discoveredTypes,
                 output, written, arg, result>>

\* cli.ts, lines 14 to 46
CliStart ==
  /\ variant = "cli" /\ pc = "start"
  /\ IF ~pkg.found \/ ~configValid(pkg)
     THEN Fail("config") /\ UNCHANGED <<objects, loaded, useOptionTypes>>
     ELSE /\ useOptionTypes' = pkg.useOptionTypes
          /\ objects' \in Modules("cli")
          /\ loaded' = TRUE
          /\ pc' = "map"
          /\ UNCHANGED <<exitCode, error>>
  /\ UNCHANGED <<variant, argv, pkg, idx, discoveredTypes, output, written,
                 arg, result>>

schemaNameCheck(key) == key.suffix = "Schema"

\* schema._notes.push(`type:${name}`) unless the note is there
pushNote(heap, k, name) ==
  IF \E i \in 1..Len(heap[k].schema.notes) :
       NoteText(heap[k].schema.notes[i]) = "type:" \o name
  THEN heap
  ELSE [heap EXCEPT ![k].schema.notes = Append(@, TypeNote(name))]

skipEntry(name) == Entry(name, NoType, TRUE)

\* One call of the callback runTypeGenerator maps over the exports:
\* index.ts lines 116 to 125, cli.ts lines 174 to 185.
MapStep ==
  /\ pc = "map" /\ idx < Len(objects)
  /\ LET k == idx + 1
         type == objects[k].schema
     IN  IF variant = "index"
         THEN IF usableNotes(type)
              THEN LET name == nameFromNotes(type.notes).name
                       reg == addDiscoveredType(discoveredTypes, skipEntry(name))
                       w == callWriter(name, type, reg, objects)
                   IN  /\ discoveredTypes' = w.reg
                       /\ IF w.err # OK
                          THEN Fail("writer") /\ UNCHANGED <<output, idx>>
                          ELSE /\ output' = Append(output, w.text)
                               /\ idx' = k
                               /\ UNCHANGED <<pc, exitCode, error>>
                       /\ UNCHANGED objects
              ELSE /\ output' = Append(output, "")
                   /\ idx' = k
                   /\ UNCHANGED <<pc, exitCode, error, discoveredTypes, objects>>
         ELSE IF schemaNameCheck(objects[k].key)
              THEN LET name == objects[k].key.base
                       reg == addDiscoveredType(discoveredTypes, skipEntry(name))
                       heap == pushNote(objects, k, name)
                       w == callWriter(name, heap[k].schema, reg, heap)
                   IN  /\ discoveredTypes' = w.reg
                       /\ objects' = heap
                       /\ IF w.err # OK
                          THEN Fail("writer") /\ UNCHANGED <<output, idx>>
                          ELSE /\ output' = Append(output, w.text)
                               /\ idx' = k
                               /\ UNCHANGED <<pc, exitCode, error>>
              ELSE /\ idx' = k
                   /\ UNCHANGED <<pc, exitCode, error, discoveredTypes, objects,
                                  output>>
  /\ UNCHANGED <<variant, argv, pkg, useOptionTypes, loaded, written, arg, result>>

notSkipped(t) == ~t.skip

\* discoveredTypes.filter(t => !t.skip).forEach(type => output.unshift(...))
aliases(reg) ==
  LET kept == SelectSeq(reg, notSkipped)
  IN  [i \in 1..Len(kept) |-> writeTypeAlias(kept[i].name, Str(kept[i].type))]

OptionImport == "import { Option } from \"fp-ts/lib/Option\";"

\* The rest of runTypeGenerator up to the writes:
\* index.ts lines 127 to 129, cli.ts lines 187 to 210.
Flush ==
  /\ pc = "map" /\ idx = Len(objects)
  /\ output' = (IF variant = "cli" /\ useOptionTypes THEN <<OptionImport>> ELSE <<>>)
               \o Reverse(aliases(discoveredTypes)) \o output
  /\ pc' = IF variant = "cli" THEN "writeLibrary" ELSE "writeDest"
  /\ UNCHANGED <<variant, argv, pkg, useOptionTypes, objects, loaded, idx,
                 discoveredTypes, written, exitCode, error, arg, result>>

File(path, content) == [path |-> path, content |-> content]

\* index.ts line 131
WriteDest ==
  /\ pc = "writeDest"
  /\ IF Truthy(argvAt(3))
     THEN /\ written' = Append(written, File(argvAt(3), join(output, "\n\n")))
          /\ pc' = "done" /\ exitCode' = 0 /\ UNCHANGED error
     ELSE Fail("write") /\ UNCHANGED written
  /\ UNCHANGED <<variant, argv, pkg, useOptionTypes, objects, loaded, idx,
                 discoveredTypes, output, arg, result>>

\* cli.ts line 212: the support file is a copy of one of two templates
WriteLibrary ==
  /\ pc = "writeLibrary"
  /\ written' = Append(written,
       File("library", IF useOptionTypes THEN "optionTypeFns.ts" ELSE "standardFns.ts"))
  /\ pc' = "writeTypes"
  /\ UNCHANGED <<variant, argv, pkg, useOptionTypes, objects, loaded, idx,
                 discoveredTypes, output, exitCode, error, arg, result>>

\* cli.ts line 213
WriteTypes ==
  /\ pc = "writeTypes"
  /\ written' = Append(written, File("types", join(output, "\n\n") \o "\n"))
  /\ pc' = "writeUtils"
  /\ UNCHANGED <<variant, argv, pkg, useOptionTypes, objects, loaded, idx,
                 discoveredTypes, output, exitCode, error, arg, result>>

schemaTypeNames ==
  LET named == SelectSeq(objects, LAMBDA e : schemaNameCheck(e.key))
  IN  [i \in 1..Len(named) |-> named[i].key.base]

\* cli.ts line 214: one coercion function per schema name (the templates of
\* coercionTemplate are not among the sources; the content is the names)
WriteUtils ==
  /\ pc = "writeUtils"
  /\ written' = Append(written, File("utils", join(schemaTypeNames, "\n\n") \o "\n"))
  /\ pc' = "done" /\ exitCode' = 0
  /\ UNCHANGED <<variant, argv, pkg, useOptionTypes, objects, loaded, idx,
                 discoveredTypes, output, error, arg, result>>

Next ==
  \/ IndexStart
  \/ CliStart
  \/ MapStep
  \/ Flush
  \/ WriteDest
  \/ WriteLibrary
  \/ WriteTypes
  \/ WriteUtils

Spec == Init /\ [][Next]_vars

----------------------------------------------------------------------------
(* Single calls of deriveType, writeTypeAlias and writeInterfaceType *)

Plain(type) == Node(type, <<>>, <<>>, "")
ArrayOf(notes, items) == [Node("array", notes, <<>>, "") EXCEPT !.items = items]
AlternativesOf(notes, tests, ms) ==
  [Node("alternatives", notes, tests, "") EXCEPT
     !.matches = [i \in 1..Len(ms) |-> [schema |-> ms[i]]]]

Leaves ==
  { Plain("string"),
    Node("string", <<>>, <<"guid">>, ""),
    Node("string", <<TypeNote("Money")>>, <<>>, ""),
    Node("string", <<TypeNote("Money")>>, <<"guid">>, ""),
    Node("string", <<Note("", "deprecated"), TypeNote("Id"), TypeNote("Money")>>,
         <<"min", "guid">>, ""),
    Plain("date"),
    Node("date", <<TypeNote("Money")>>, <<>>, ""),
    Plain("number") }

ItemPool ==
  Leaves \cup { ArrayOf(<<>>, <<Plain("string")>>),
                ArrayOf(<<>>, <<>>),
                AlternativesOf(<<>>, <<>>, <<Plain("string"), Plain("date")>>) }

DeriveNodes ==
  Leaves
  \cup { ArrayOf(notes, items) :
           notes \in {<<>>, <<TypeNote("Money")>>},
           items \in SeqsUpTo(ItemPool, MaxItems) }
  \cup { AlternativesOf(notes, tests, ms) :
           notes \in {<<>>, <<TypeNote("Money")>>},
           tests \in {<<>>, <<"guid">>},
           ms \in SeqsUpTo(ItemPool, MaxItems) }

PriorRegs ==
  { <<>>,
    <<Entry("Money", "number", FALSE)>>,
    <<Entry("Uuid", NoType, TRUE), Entry("Id", "string", FALSE)>> }

Vals == { Val("string", "a"), Val("string", "b"), Val("string", "1"),
          Val("number", "1") }

AliasNodes ==
  { [Node(base, <<TypeNote("Status")>>, <<>>, "") EXCEPT !.valids = vs] :
      base \in {"string", "array"}, vs \in SeqsUpTo(Vals, MaxValids) }

FieldPool ==
  { [n EXCEPT !.presence = p] :
      n \in { Plain("string"), Node("string", <<>>, <<"guid">>, ""),
              Node("date", <<TypeNote("Money")>>, <<>>, ""),
              ArrayOf(<<>>, <<Plain("number")>>) },
      p \in {"", "optional", "required"} }

RecordNodes ==
  { [Node("object", <<>>, <<>>, "") EXCEPT
       !.children = [k \in 1..Len(cs) |-> [key |-> Key(k), schema |-> cs[k]]]] :
      cs \in SeqsUpTo(FieldPool, MaxFields) }

Call(fn, name, node, reg) == [fn |-> fn, name |-> name, node |-> node, reg |-> reg]

Calls ==
  { Call("deriveType", "", n, r) : n \in DeriveNodes, r \in PriorRegs }
  \cup { Call("writeTypeAlias", "Status", n, <<>>) : n \in AliasNodes }
  \cup { Call("writeInterfaceType", "Widget", n, <<>>) : n \in RecordNodes }

InitCall ==
  /\ variant \in {"index", "cli"}
  /\ argv = <<>> /\ pkg = NoPkg
  /\ useOptionTypes \in (IF variant = "cli" THEN BOOLEAN ELSE {FALSE})
  /\ arg \in Calls
  /\ (useOptionTypes => arg.fn = "writeInterfaceType")
  /\ objects = <<>>
  /\ loaded = TRUE
  /\ pc = "call"
  /\ idx = 0
  /\ discoveredTypes = arg.reg
  /\ output = <<>>
  /\ written = <<>>
  /\ exitCode = -1
  /\ error = ""
  /\ result = NoResult

Return(r) ==
  /\ result' = r
  /\ discoveredTypes' = r.reg
  /\ pc' = "ret"
  /\ UNCHANGED <<variant, argv, pkg, useOptionTypes, objects, loaded, idx,
                 output, written, exitCode, error, arg>>

CallDeriveType ==
  /\ pc = "call" /\ arg.fn = "deriveType"
  /\ LET r == deriveType(arg.node, discoveredTypes, objects)
     IN  Return([text |-> r.expr, reg |-> r.reg, err |-> r.err])

CallWriteTypeAlias ==
  /\ pc = "call" /\ arg.fn = "writeTypeAlias"
  /\ Return([text |-> writeTypeAlias(arg.name, arg.node),
             reg |-> discoveredTypes, err |-> OK])

CallWriteInterfaceType ==
  /\ pc = "call" /\ arg.fn = "writeInterfaceType"
  /\ Return(writeInterfaceType(arg.name, arg.node, discoveredTypes, objects))

NextCall == CallDeriveType \/ CallWriteTypeAlias \/ CallWriteInterfaceType

SpecCall == InitCall /\ [][NextCall]_vars

----------------------------------------------------------------------------
(* What the properties below read off a state *)

Tagged(n) == \E i \in 1..Len(n.notes) : n.notes[i].pre = "type:"
TagOf(n) ==
  n.notes[CHOOSE i \in 1..Len(n.notes) :
            /\ n.notes[i].pre = "type:"
            /\ \A j \in 1..(i - 1) : n.notes[j].pre # "type:"].rest
HasGuid(n) == \E i \in 1..Len(n.tests) : n.tests[i] = "guid"
Required(n) == n.presence = "required"
Mapped(kind) == IF kind = "date" THEN "Date" ELSE kind
Registered(reg, e) ==
  IF \E i \in 1..Len(reg) : reg[i].name = e.name THEN reg ELSE Append(reg, e)
NamedEntries(reg, name) == {i \in 1..Len(reg) : reg[i].name = name}

Returned(fn) == pc = "ret" /\ arg.fn = fn
ExprOf(n) == deriveType(n, <<>>, <<>>).expr
Derives(n) == deriveType(n, <<>>, <<>>).err = OK

RECURSIVE UniqFirst(_)
UniqFirst(s) ==
  IF Len(s) = 0 THEN <<>>
  ELSE LET front == SubSeq(s, 1, Len(s) - 1)
           last == s[Len(s)]
       IN  IF \E i \in 1..Len(front) : front[i] = last
           THEN UniqFirst(front)
           ELSE Append(UniqFirst(front), last)

\* The exports the generator treats as schemas, and the names it gives them.
IsSchemaExport(k) ==
  IF variant = "index" THEN Tagged(objects[k].schema)
  ELSE objects[k].key.suffix = "Schema"
TopName(k) ==
  IF variant = "index" THEN TagOf(objects[k].schema) ELSE objects[k].key.base
HasWriter(k) == objects[k].schema.type \in {"array", "object", "string"}

\* The fields (objects of their own, not other exports) of the records among
\* the first n exports, each with its place: export k, field f.
Fields(n) ==
  { x \in UNION { { [k |-> k, f |-> f,
                     schema |-> objects[k].schema.children[f].schema] :
                      f \in 1..Len(objects[k].schema.children) } :
                  k \in {j \in 1..n : IsSchemaExport(j)
                                      /\ objects[j].schema.type = "object"} } :
      x.schema.ref = 0 }
First(S) ==
  CHOOSE x \in S : \A y \in S : x.k < y.k \/ (x.k = y.k /\ x.f <= y.f)

----------------------------------------------------------------------------
(* Properties of single calls, checked under SpecCall *)

\* C4: deriveType of an array node with one item is the item's expression
\* followed by []; with two or more items it is Array<...> around the
\* expressions of all items, the first included, joined by " | " in item order.
C4_ArrayShape ==
  (Returned("deriveType") /\ arg.node.type = "array") =>
    LET items == arg.node.items
    IN  (Len(items) >= 1 /\ \A i \in 1..Len(items) : Derives(items[i])) =>
          /\ result.err = OK
          /\ result.text =
               IF Len(items) = 1
               THEN ExprOf(items[1]) \o "[]"
               ELSE "Array<"
                    \o join([i \in 1..Len(items) |-> ExprOf(items[i])], " | ")
                    \o ">"

C4_Witness ==
  /\ Returned("deriveType") /\ arg.node.type = "array"
  /\ Len(arg.node.items) = 2
  /\ result.text = "Array<Uuid | Date>"

\* C6: writeInterfaceType gives one line per child, in the children's order,
\* typed by deriveType of the child; the key carries ? exactly when the child
\* is not required, except that with useOptionTypes no key carries it and
\* exactly the types of the children that are not required are wrapped in
\* Option<...>.
C6_FieldLines ==
  Returned("writeInterfaceType") =>
    LET cs == arg.node.children
        opt == variant = "cli" /\ useOptionTypes
        line(i) ==
          "  " \o cs[i].key
          \o (IF ~opt /\ ~Required(cs[i].schema) THEN "?" ELSE "")
          \o ": "
          \o (IF opt /\ ~Required(cs[i].schema)
              THEN "Option<" \o ExprOf(cs[i].schema) \o ">"
              ELSE ExprOf(cs[i].schema))
          \o ";"
    IN  /\ result.err = OK
        /\ result.text = "export interface " \o arg.name \o " {\n"
                         \o join([i \in 1..Len(cs) |-> line(i)], "\n") \o "\n}"

C6_Witness ==
  /\ Returned("writeInterfaceType")
  /\ variant = "cli" /\ useOptionTypes
  /\ result.text =
       "export interface Widget {\n  f1: Option<Uuid>;\n  f2: number[];\n}"

\* C7 as claimed: the alias of a scalar or array schema is
\* export type <Name> = <literals joined by " | ">; with every rendered
\* literal once, in the order of first occurrence (the mapped base kind when
\* there are no allowed values).
C7_Claim ==
  Returned("writeTypeAlias") =>
    LET vs == arg.node.valids
        rendered == [i \in 1..Len(vs) |->
                       IF arg.node.type = "string"
                       THEN "\"" \o vs[i].s \o "\"" ELSE vs[i].s]
    IN  result.text =
          "export type " \o arg.name \o " = "
          \o (IF Len(vs) = 0 THEN Mapped(arg.node.type)
              ELSE join(UniqFirst(rendered), " | "))
          \o ";"

\* C7 as amended: on a string schema the literals are the quoted values, each
\* text once, in the order of first occurrence; on another base kind they are
\* the bare values, and a value is dropped when it is strictly equal to an
\* earlier one (two different values with the same text are both rendered).
\* index.ts joins them with " | " after "= "; cli.ts writes each on a line of
\* its own, after "=", as "\n  | <literal>".  Without allowed values both
\* give export type <Name> = <mapped base kind>;
C7_Amended ==
  Returned("writeTypeAlias") =>
    LET vs == arg.node.valids
        lits == IF arg.node.type = "string"
                THEN UniqFirst([i \in 1..Len(vs) |-> "\"" \o vs[i].s \o "\""])
                ELSE LET u == UniqFirst(vs) IN [i \in 1..Len(u) |-> u[i].s]
    IN  result.text =
          IF Len(vs) = 0
          THEN "export type " \o arg.name \o " = " \o Mapped(arg.node.type) \o ";"
          ELSE IF variant = "index"
          THEN "export type " \o arg.name \o " = " \o join(lits, " | ") \o ";"
          ELSE "export type " \o arg.name \o " ="
               \o concat([i \in 1..Len(lits) |-> "\n  | " \o lits[i]]) \o ";"

C7_Witness ==
  /\ Returned("writeTypeAlias") /\ variant = "cli"
  /\ arg.node.type = "string"
  /\ arg.node.valids = <<Val("string", "a"), Val("string", "a"), Val("string", "b")>>
  /\ result.text = "export type Status =\n  | \"a\"\n  | \"b\";"

\* C9 as claimed: deriveType of a node that is no array and carries a
\* type:<Name> tag returns <Name> and, when <Name> is not registered yet,
\* registers it with the node's kind mapped through the primitive table
\* (date becomes Date).
C9_Claim ==
  (/\ Returned("deriveType")
   /\ arg.node.type # "array" /\ Tagged(arg.node)
   /\ NamedEntries(arg.reg, TagOf(arg.node)) = {}) =>
    /\ result.text = TagOf(arg.node)
    /\ result.reg = Append(arg.reg,
                           Entry(TagOf(arg.node), Mapped(arg.node.type), FALSE))

\* C10: deriveType tries array, type: tag, guid rule, alternatives (cli.ts
\* only) and the primitive table in this order, and the first rule that
\* matches alone decides the expression and what is registered.
C10_Dispatch ==
  Returned("deriveType") =>
    LET n == arg.node
        r0 == arg.reg
        bare == deriveType([n EXCEPT !.notes = <<>>, !.tests = <<>>], r0, <<>>)
        ms == [i \in 1..Len(n.matches) |-> n.matches[i].schema]
    IN  IF n.type = "array"
        THEN /\ result = [text |-> bare.expr, reg |-> bare.reg, err |-> bare.err]
             /\ (Len(n.items) = 1 /\ Derives(n.items[1])) =>
                   /\ result.text = ExprOf(n.items[1]) \o "[]"
                   /\ result.reg = deriveType(n.items[1], r0, <<>>).reg
        ELSE IF Tagged(n)
        THEN /\ result.text = TagOf(n)
             /\ result.reg = Registered(r0, Entry(TagOf(n), n.type, FALSE))
             /\ result.err = OK
        ELSE IF HasGuid(n)
        THEN /\ result.text = "Uuid"
             /\ result.reg = Registered(r0, Entry("Uuid", "string", FALSE))
             /\ result.err = OK
        ELSE IF n.type = "alternatives" /\ variant = "cli"
        THEN (\A i \in 1..Len(ms) : Derives(ms[i])) =>
               /\ result.text = join([i \in 1..Len(ms) |-> ExprOf(ms[i])], " | ")
               /\ result.err = OK
        ELSE /\ result.text = Mapped(n.type)
             /\ result.reg = r0
             /\ result.err = OK

C10_Witness ==
  /\ Returned("deriveType") /\ variant = "cli"
  /\ arg.node.type = "alternatives"
  /\ Tagged(arg.node) /\ HasGuid(arg.node)
  /\ Len(arg.node.matches) = 2
  /\ arg.reg = <<>>
  /\ result.text = "Money"
  /\ result.reg = <<Entry("Money", "alternatives", FALSE)>>

C10_WitnessUnion ==
  /\ Returned("deriveType") /\ variant = "cli"
  /\ arg.node.type = "alternatives"
  /\ ~Tagged(arg.node) /\ ~HasGuid(arg.node)
  /\ result.text = "string | string"

----------------------------------------------------------------------------
(* Properties of a run, checked under Spec *)

Mapping == pc = "map" \/ pc = "failed"
AllMapped ==
  pc \in {"writeDest", "writeLibrary", "writeTypes", "writeUtils", "done"}
  \/ (pc = "failed" /\ error = "write")
MoneyFields(n) == {x \in Fields(n) : Tagged(x.schema) /\ TagOf(x.schema) = "Money"}
GuidFields(n) ==
  {x \in Fields(n) : x.schema.type = "string" /\ HasGuid(x.schema)}
UntaggedGuidFields(n) == {x \in GuidFields(n) : ~Tagged(x.schema)}

C1_Unique ==
  \A i, j \in 1..Len(discoveredTypes) :
    discoveredTypes[i].name = discoveredTypes[j].name => i = j

\* Fields tagged type:Money, in one schema or several, leave one Money entry,
\* the one of the first of them, and each of them derives to Money.
C1_Money ==
  /\ \A x \in MoneyFields(Len(objects)) :
       deriveType(x.schema, discoveredTypes, objects).expr = "Money"
  /\ MoneyFields(idx) # {} =>
       \E i \in 1..Len(discoveredTypes) :
         /\ NamedEntries(discoveredTypes, "Money") = {i}
         /\ discoveredTypes[i] =
              Entry("Money", First(MoneyFields(idx)).schema.type, FALSE)

\* A step leaves every entry of the registry as it is, in its place.
C1_Kept ==
  /\ Len(discoveredTypes') >= Len(discoveredTypes)
  /\ \A i \in 1..Len(discoveredTypes) : discoveredTypes'[i] = discoveredTypes[i]

\* C1: the registry holds at most one entry per name and the entry of a name
\* is the one registered first: no later registration changes an entry's
\* type or skip flag, or adds a second entry of the name.
C1_FirstWriterWins == [](C1_Unique /\ C1_Money) /\ [][C1_Kept]_vars

C1_Witness ==
  /\ pc = "done"
  /\ \E x, y \in MoneyFields(Len(objects)) :
       x.k < y.k /\ x.schema.type = "string" /\ y.schema.type = "date"
  /\ \E i \in 1..Len(discoveredTypes) :
       /\ NamedEntries(discoveredTypes, "Money") = {i}
       /\ discoveredTypes[i] = Entry("Money", "string", FALSE)

\* C2 as claimed: at the end of runTypeGenerator the registry entry of every
\* top-level schema name has skip = TRUE, so that no name the declaration
\* writer declared is declared again as an alias.
C2_Claim ==
  pc = "done" =>
    \A k \in 1..Len(objects) :
      (IsSchemaExport(k) /\ HasWriter(k)) =>
        \E i \in 1..Len(discoveredTypes) :
          discoveredTypes[i].name = TopName(k) /\ discoveredTypes[i].skip

\* C3 as claimed: index.ts with sourcePath or destPath missing exits with a
\* status that is not zero, and neither loads the module nor writes.
C3_Claim ==
  (variant = "index" /\ (~Truthy(argvAt(2)) \/ ~Truthy(argvAt(3)))) =>
    /\ ~loaded
    /\ written = <<>>
    /\ pc # "start" => (pc \in {"exited", "failed"} /\ exitCode # 0)

\* C5 as claimed: every string field with the guid rule derives to Uuid and,
\* when all schemas are mapped, the registry holds exactly one Uuid entry,
\* with base expression string.
C5_Claim ==
  /\ \A x \in GuidFields(Len(objects)) :
       deriveType(x.schema, discoveredTypes, objects).expr = "Uuid"
  /\ (AllMapped /\ GuidFields(Len(objects)) # {}) =>
       \E i \in 1..Len(discoveredTypes) :
         /\ NamedEntries(discoveredTypes, "Uuid") = {i}
         /\ discoveredTypes[i].type = "string"

UuidNamedElsewhere ==
  \/ \E x \in Fields(Len(objects)) : Tagged(x.schema) /\ TagOf(x.schema) = "Uuid"
  \/ \E k \in 1..Len(objects) : IsSchemaExport(k) /\ TopName(k) = "Uuid"

\* C5 as amended: every string field with the guid rule and without a type:
\* tag derives to Uuid and, when all schemas are mapped and there is such a
\* field, the registry holds exactly one Uuid entry, however many such fields
\* there are; its base expression is string unless a type:Uuid tag or a
\* top-level schema named Uuid registers the name.
C5_Amended ==
  /\ \A x \in UntaggedGuidFields(Len(objects)) :
       deriveType(x.schema, discoveredTypes, objects).expr = "Uuid"
  /\ (AllMapped /\ UntaggedGuidFields(Len(objects)) # {}) =>
       \E i \in 1..Len(discoveredTypes) :
         /\ NamedEntries(discoveredTypes, "Uuid") = {i}
         /\ ~UuidNamedElsewhere =>
              discoveredTypes[i] = Entry("Uuid", "string", FALSE)

C5_Witness ==
  /\ pc = "done"
  /\ \E x, y \in UntaggedGuidFields(Len(objects)) : x.k < y.k
  /\ ~UuidNamedElsewhere
  /\ Cardinality(NamedEntries(discoveredTypes, "Uuid")) = 1

ConfigIncomplete ==
  variant = "cli"
  /\ (~pkg.found \/ ~pkg.section \/ ~pkg.input \/ pkg.outputs # Outputs)
UnwritableSchema ==
  \E k \in 1..Len(objects) : IsSchemaExport(k) /\ ~HasWriter(k)

\* C8: a run that meets a configuration error or a schema of a kind without
\* a writer writes no file; a file is written only when every export has been
\* mapped and the aliases of the registry are in the output; and a
\* configuration error ends the run before the input module is loaded.
C8_NoPartialOutput ==
  /\ ConfigIncomplete => (~loaded /\ written = <<>>)
  /\ (ConfigIncomplete /\ pc # "start") => (pc = "failed" /\ error = "config")
  /\ UnwritableSchema => written = <<>>
  /\ (UnwritableSchema /\ AllMapped) => FALSE
  /\ error # "" => (written = <<>> /\ exitCode = 1)
  /\ written # <<>> =>
       /\ idx = Len(objects)
       /\ pc \in {"writeTypes", "writeUtils", "done"}
       /\ \A i \in 1..Len(discoveredTypes) :
            ~discoveredTypes[i].skip =>
              \E o \in 1..Len(output) :
                output[o] = writeTypeAlias(discoveredTypes[i].name,
                                           Str(discoveredTypes[i].type))

C8_Witness ==
  /\ pc = "failed" /\ error = "writer"
  /\ idx >= 1 /\ Len(output) >= 1
  /\ Len(discoveredTypes) >= 2
  /\ written = <<>>

C8_WitnessConfig ==
  /\ pc = "failed" /\ error = "config"
  /\ pkg.found /\ pkg.section /\ pkg.input /\ pkg.outputs = {"library", "types"}
  /\ ~loaded /\ written = <<>>

=============================================================================
